---- MODULE Spec2Model ----
(***************************************************************************)
(* Snake Master (src/snake_game.py): the simulation core of the game --     *)
(* Snake, Food, PowerUpManager, HighScoreManager.add_score, MenuSystem's    *)
(* menu input and Game.reset_game / handle_events / update -- as a state    *)
(* machine.  Rendering, sound and particles are left out: they read the     *)
(* simulation state and never write it.  Leaving Game.run's loop is left    *)
(* out too: its last pass is a pass like any other.                         *)
(*                                                                         *)
(* Time is counted in whole seconds.  time.time() is an input: every       *)
(* Game.update draws the time dt elapsed since the previous update from a   *)
(* small set (0, 1 or 11 seconds; at difficulty EASY, the only one the      *)
(* game ever sets, an update of 1 second or more is a simulation tick).     *)
(* The program compares clock readings only with each other, so the model  *)
(* keeps every stored reading relative to Game.last_update_time:            *)
(* a power-up's spawn_time and an effect's end time in Snake.power_ups are  *)
(* held as (reading - last_update_time).  An update therefore runs with     *)
(* current_time = dt and ends by shifting the stored readings by -dt        *)
(* (rebase), which is what `self.last_update_time = current_time` does to   *)
(* those differences.                                                       *)
(*                                                                         *)
(* The speed multipliers 0.5 / 1.0 / 2.0 and the difficulty's score         *)
(* multiplier are stored in halves (1 / 2 / 4), so that all arithmetic is   *)
(* integer arithmetic and still exact.                                      *)
(***************************************************************************)
EXTENDS Integers, Sequences, FiniteSets, TLC

(***************************************************************************)
(* Bounds of the model.                                                     *)
(***************************************************************************)
\* the grid of the model is GridW x GridH cells (the game's is 60 x 40)
GridW == 3
GridH == 2
\* simulation ticks explored per round
MaxTicks == 4
\* simulation ticks explored per round where several rounds are played
RoundTicks == 2
\* seconds of play explored per round
MaxPlayed == 14
\* seconds by which stored clock readings are aged outside PLAYING
MaxIdle == 16
\* calls of reset_game explored, the one of Game.__init__ included
MaxRounds == 3
\* simulation ticks and seconds of play explored per round where a power-up is
\* collected twice
RepeatTicks == 3
RepeatPlayed == 23
\* simulation ticks and seconds of play explored per round where the effects of
\* two power-ups overlap
OverlapTicks == 4
OverlapPlayed == 28
\* simulation ticks explored per round of two snakes with power-ups
DuelTicks == 2
\* calls of Snake.move and of Snake.grow explored in the straight run
ScenarioAdvances == 9
ScenarioGrowths == 4
\* body lengths and calls of Snake.add_power_up explored on a lone snake
MaxBody == 10
MaxApplications == 3

(***************************************************************************)
(* Program constants.                                                       *)
(***************************************************************************)
GRID_WIDTH == GridW
GRID_HEIGHT == GridH

\* Snake.speed_multiplier in halves: 1.0, 2.0 (speed boost), 0.5 (slow down)
SPEED_NORMAL == 2
SPEED_BOOSTED == 4
SPEED_SLOWED == 1
\* Snake.invulnerable_time granted by wall phase, seconds
WALL_PHASE_INVULNERABLE == 2
\* Food.value
FOOD_VALUE == 10
\* snake.grow(2) on eating
FOOD_GROWTH == 2
\* PowerUpManager: spawn interval, cap on active power-ups, lifetime, duration
SPAWN_INTERVAL == 10
MAX_ACTIVE_POWERUPS == 3
POWERUP_LIFETIME == 15
POWERUP_DURATION == 5
\* HighScoreManager.add_score keeps the top 10
TOP_SCORES == 10

\* Difficulty.EASY, the only difficulty Game ever holds; multiplier in halves
EASY == [speed |-> 8, multiplier |-> 2, powerups |-> TRUE]

PowerUpType ==
    {"speed_boost", "slow_down", "double_points", "shrink", "wall_phase", "multiplier"}

GameState == {"menu", "playing", "paused", "game_over", "high_scores", "settings"}

menu_options == <<"Single Player", "Multiplayer", "High Scores", "Settings", "Quit">>

\* Player 1 and player 2 controls of Game.reset_game
p1_controls == [k \in {"w", "s", "a", "d"} |->
    CASE k = "w" -> <<0, -1>> [] k = "s" -> <<0, 1>>
      [] k = "a" -> <<-1, 0>> [] k = "d" -> <<1, 0>>]
p2_controls == [k \in {"UP", "DOWN", "LEFT", "RIGHT"} |->
    CASE k = "UP" -> <<0, -1>> [] k = "DOWN" -> <<0, 1>>
      [] k = "LEFT" -> <<-1, 0>> [] k = "RIGHT" -> <<1, 0>>]

\* the keys the program reacts to
Keys == {"UP", "DOWN", "LEFT", "RIGHT", "RETURN", "ESCAPE", "r", "m", "w", "a", "s", "d"}

(***************************************************************************)
(* Helpers.                                                                 *)
(***************************************************************************)
Cells(W, H) == (0 .. W - 1) \X (0 .. H - 1)

\* Python's `x in list`
InSeq(x, seq) == \E k \in 1 .. Len(seq) : seq[k] = x

\* Python's seq[:n]
Prefix(seq, n) == SubSeq(seq, 1, n)

\* the empty dict
EmptyDict == [t \in {} |-> 0]

(***************************************************************************)
(* class Snake.                                                             *)
(***************************************************************************)
\* Snake.__init__; speed_multiplier in halves
Snake(player_id, start_pos) ==
    [player_id |-> player_id,
     positions |-> <<start_pos>>,
     direction |-> <<1, 0>>,
     grow_pending |-> 0,
     score |-> 0,
     alive |-> TRUE,
     power_ups |-> EmptyDict,
     invulnerable_time |-> 0,
     speed_multiplier |-> SPEED_NORMAL,
     wall_phase |-> FALSE]

\* snake.controls
controls(s) == IF s.player_id = 1 THEN p1_controls ELSE p2_controls

\* Snake.remove_power_up
remove_power_up(s, powerup_type) ==
    IF powerup_type \in DOMAIN s.power_ups
    THEN LET removed == [s EXCEPT !.power_ups =
                            [t \in (DOMAIN s.power_ups) \ {powerup_type} |-> s.power_ups[t]]]
         IN  CASE powerup_type = "speed_boost" -> [removed EXCEPT !.speed_multiplier = SPEED_NORMAL]
               [] powerup_type = "slow_down" -> [removed EXCEPT !.speed_multiplier = SPEED_NORMAL]
               [] powerup_type = "wall_phase" -> [removed EXCEPT !.wall_phase = FALSE]
               [] OTHER -> removed
    ELSE s

\* the expired_powerups list of Snake.update
expired_powerups(s, current_time) ==
    {t \in DOMAIN s.power_ups : current_time > s.power_ups[t]}

\* the loop `for powerup_type in expired_powerups: self.remove_power_up(...)`
RECURSIVE remove_all(_, _)
remove_all(s, types) ==
    IF types = {} THEN s
    ELSE LET t == CHOOSE x \in types : TRUE
         IN  remove_all(remove_power_up(s, t), types \ {t})

\* Snake.update without the trail particles
snake_update(s, dt, current_time) ==
    LET cleaned == remove_all(s, expired_powerups(s, current_time))
    IN  IF cleaned.invulnerable_time > 0
        THEN [cleaned EXCEPT !.invulnerable_time = @ - dt]
        ELSE cleaned

\* a faulty out_of_grid: the far walls are one cell too far
out_of_grid_lenient(p, W, H) == p[1] < 0 \/ p[1] > W \/ p[2] < 0 \/ p[2] > H

\* the wall test of Snake.move
out_of_grid(p, W, H) == p[1] < 0 \/ p[1] >= W \/ p[2] < 0 \/ p[2] >= H

\* a faulty wrap: the coordinates are not reduced
wrap_unreduced(p, W, H) == p

\* the wrap-around of Snake.move (Python's % is never negative for a positive modulus)
wrap(p, W, H) == <<p[1] % W, p[2] % H>>

\* a faulty self_collision: invulnerability is not looked at
self_collision_unprotected(s, new_head) == InSeq(new_head, s.positions)

\* a faulty self_collision: the tail cell, about to be vacated, is not counted
self_collision_spares_tail(s, new_head) ==
    s.invulnerable_time <= 0 /\ InSeq(new_head, Prefix(s.positions, Len(s.positions) - 1))

\* the self-collision test of Snake.move
self_collision(s, new_head) == s.invulnerable_time <= 0 /\ InSeq(new_head, s.positions)

\* a faulty advance_body: the tail is never popped
advance_body_keep_tail(s, new_head) ==
    [s EXCEPT !.positions = <<new_head>> \o @,
              !.grow_pending = IF @ > 0 THEN @ - 1 ELSE @]

\* the body after a successful move: new head in front, tail popped unless growing
advance_body(s, new_head) ==
    IF s.grow_pending > 0
    THEN [s EXCEPT !.positions = <<new_head>> \o @, !.grow_pending = @ - 1]
    ELSE [s EXCEPT !.positions = <<new_head>> \o Prefix(@, Len(@) - 1)]

\* Snake.move on a W x H grid: the snake afterwards and the value returned
move(s, W, H) ==
    IF ~s.alive THEN [snake |-> s, ok |-> TRUE]
    ELSE LET head == s.positions[1]
             stepped == <<head[1] + s.direction[1], head[2] + s.direction[2]>>
         IN  IF ~s.wall_phase /\ out_of_grid(stepped, W, H)
             THEN [snake |-> [s EXCEPT !.alive = FALSE], ok |-> FALSE]
             ELSE LET new_head == IF s.wall_phase THEN wrap(stepped, W, H) ELSE stepped
                  IN  IF self_collision(s, new_head)
                      THEN [snake |-> [s EXCEPT !.alive = FALSE], ok |-> FALSE]
                      ELSE [snake |-> advance_body(s, new_head), ok |-> TRUE]

\* Snake.change_direction
change_direction(s, direction) ==
    IF <<direction[1] * (-1), direction[2] * (-1)>> # s.direction
    THEN [s EXCEPT !.direction = direction]
    ELSE s

\* Snake.grow
grow(s, amount) == [s EXCEPT !.grow_pending = @ + amount]

\* a faulty shrink: the half is rounded up
shrink_rounded_up(positions) ==
    IF Len(positions) > 3 THEN Prefix(positions, (Len(positions) + 1) \div 2) ELSE positions

\* the SHRINK branch of Snake.add_power_up
shrink(positions) ==
    IF Len(positions) > 3 THEN Prefix(positions, Len(positions) \div 2) ELSE positions

\* Snake.add_power_up
add_power_up(s, powerup_type, duration, current_time) ==
    LET timed == [s EXCEPT !.power_ups =
                     [t \in (DOMAIN s.power_ups) \cup {powerup_type} |->
                         IF t = powerup_type THEN current_time + duration ELSE s.power_ups[t]]]
    IN  CASE powerup_type = "speed_boost" -> [timed EXCEPT !.speed_multiplier = SPEED_BOOSTED]
          [] powerup_type = "slow_down" -> [timed EXCEPT !.speed_multiplier = SPEED_SLOWED]
          [] powerup_type = "shrink" -> [timed EXCEPT !.positions = shrink(@)]
          [] powerup_type = "wall_phase" ->
                [timed EXCEPT !.wall_phase = TRUE, !.invulnerable_time = WALL_PHASE_INVULNERABLE]
          [] OTHER -> timed

(***************************************************************************)
(* class Food, PowerUpManager, HighScoreManager.                            *)
(***************************************************************************)
\* the cells Food.generate_position can return
generate_position == Cells(GRID_WIDTH, GRID_HEIGHT)

\* a PowerUp of PowerUpManager.spawn_powerup (without its colour)
PowerUp(type, position, current_time) ==
    [type |-> type, position |-> position,
     duration |-> POWERUP_DURATION, spawn_time |-> current_time]

\* the outcomes of the two random draws of PowerUpManager.spawn_powerup
spawn_draws == PowerUpType \X Cells(GRID_WIDTH, GRID_HEIGHT)

\* the power-ups PowerUpManager.update keeps
unexpired(active_powerups, current_time) ==
    SelectSeq(active_powerups, LAMBDA p : current_time - p.spawn_time < POWERUP_LIFETIME)

\* a faulty spawn_due: the spawn timer is not looked at
spawn_due_at_once(timer, kept) == Len(kept) < MAX_ACTIVE_POWERUPS

\* whether PowerUpManager.update spawns, given the timer and the kept power-ups
spawn_due(timer, kept) == timer > SPAWN_INTERVAL /\ Len(kept) < MAX_ACTIVE_POWERUPS

\* PowerUpManager.update; draw is the <<type, position>> spawn_powerup draws
powerup_manager_update(active_powerups, timer, dt, current_time, draw) ==
    LET timer1 == timer + dt
        kept == unexpired(active_powerups, current_time)
    IN  IF spawn_due(timer1, kept)
        THEN [active_powerups |-> Append(kept, PowerUp(draw[1], draw[2], current_time)),
              spawn_timer |-> 0]
        ELSE [active_powerups |-> kept, spawn_timer |-> timer1]

\* PowerUpManager.check_collision: index of the power-up returned, 0 for None
check_collision(active_powerups, snake_pos) ==
    IF \E k \in 1 .. Len(active_powerups) : active_powerups[k].position = snake_pos
    THEN CHOOSE k \in 1 .. Len(active_powerups) :
            /\ active_powerups[k].position = snake_pos
            /\ \A j \in 1 .. k - 1 : active_powerups[j].position # snake_pos
    ELSE 0

\* list.remove of the k-th element
RemoveAt(seq, k) == SubSeq(seq, 1, k - 1) \o SubSeq(seq, k + 1, Len(seq))

\* a stable insertion: entry goes behind the entries that score as much or more
RECURSIVE insert_by_score(_, _)
insert_by_score(sorted, entry) ==
    IF sorted = <<>> THEN <<entry>>
    ELSE IF sorted[1].score >= entry.score
         THEN <<sorted[1]>> \o insert_by_score(Tail(sorted), entry)
         ELSE <<entry>> \o sorted

\* list.sort(key=lambda x: x["score"], reverse=True): stable, descending
RECURSIVE sort_by_score(_)
sort_by_score(entries) ==
    IF entries = <<>> THEN <<>>
    ELSE insert_by_score(sort_by_score(Prefix(entries, Len(entries) - 1)), entries[Len(entries)])

\* HighScoreManager.add_score (the entry's wall-clock stamp is left out)
add_score(scores, score, player_name, mode) ==
    LET sorted == sort_by_score(Append(scores[mode], [name |-> player_name, score |-> score]))
    IN  [scores EXCEPT ![mode] =
            Prefix(sorted, IF Len(sorted) < TOP_SCORES THEN Len(sorted) ELSE TOP_SCORES)]

(***************************************************************************)
(* class Game: the state.                                                   *)
(***************************************************************************)
VARIABLES
    state,              \* Game.state
    multiplayer,        \* Game.multiplayer
    selected_option,    \* MenuSystem.selected_option
    snakes,             \* Game.snakes, the roster
    food,               \* Game.food.position
    active_powerups,    \* Game.powerup_manager.active_powerups
    spawn_timer,        \* Game.powerup_manager.spawn_timer
    move_timer,         \* Game.move_timer
    high_scores,        \* Game.high_score_manager.high_scores
    hung,               \* control is inside respawn_food's `while True` for good
    heading_used,       \* history: per snake, the direction of its latest advance
    ticks,              \* history: simulation ticks since the last reset_game
    played,             \* history: seconds of play since the last reset_game
    idle,               \* history: seconds the stored clock readings aged outside PLAYING
    rounds              \* history: calls of reset_game

vars == <<state, multiplayer, selected_option, snakes, food, active_powerups,
          spawn_timer, move_timer, high_scores, hung,
          heading_used, ticks, played, idle, rounds>>

\* every cell of every snake of the roster
occupied(roster) == {c \in Cells(GRID_WIDTH, GRID_HEIGHT) :
                        \E i \in 1 .. Len(roster) : InSeq(c, roster[i].positions)}

\* a faulty respawn_food: the occupancy test is dropped
respawn_food_unchecked(roster) == generate_position

\* Game.respawn_food: the cells it can leave the food on; none when the snakes
\* cover the grid, and then its loop never ends
respawn_food(roster) == {c \in generate_position : c \notin occupied(roster)}

\* a faulty reset_snakes: the second snake is never created
reset_snakes_single(multi) == <<Snake(1, <<GRID_WIDTH \div 4, GRID_HEIGHT \div 2>>)>>

\* the snakes Game.reset_game creates
reset_snakes(multi) ==
    LET snake1 == Snake(1, <<GRID_WIDTH \div 4, GRID_HEIGHT \div 2>>)
        snake2 == [Snake(2, <<(3 * GRID_WIDTH) \div 4, GRID_HEIGHT \div 2>>)
                      EXCEPT !.direction = <<-1, 0>>]
    IN  IF multi THEN <<snake1, snake2>> ELSE <<snake1>>

\* Game.reset_game with self.multiplayer = multi
reset_game(multi) ==
    /\ snakes' = reset_snakes(multi)
    /\ heading_used' = [i \in 1 .. Len(reset_snakes(multi)) |-> <<0, 0>>]
    /\ ticks' = 0
    /\ played' = 0
    /\ idle' = 0
    /\ rounds' = rounds + 1
    /\ active_powerups' = <<>>
    /\ spawn_timer' = 0
    /\ move_timer' = 0
    /\ IF respawn_food(reset_snakes(multi)) = {}
       THEN hung' = TRUE /\ food' \in generate_position
       ELSE hung' = FALSE /\ food' \in respawn_food(reset_snakes(multi))

\* Game.__init__
Init ==
    /\ state = "menu"
    /\ multiplayer = FALSE
    /\ selected_option = 0
    /\ snakes = reset_snakes(FALSE)
    /\ heading_used = <<<<0, 0>>>>
    /\ food \in respawn_food(reset_snakes(FALSE))
    /\ active_powerups = <<>>
    /\ spawn_timer = 0
    /\ move_timer = 0
    /\ high_scores = [single |-> <<>>, multi |-> <<>>]
    /\ hung = FALSE
    /\ ticks = 0
    /\ played = 0
    /\ idle = 0
    /\ rounds = 1

(***************************************************************************)
(* Game.update: one simulation tick (the body of `if self.move_timer >=     *)
(* move_interval`), loop by loop.                                           *)
(***************************************************************************)
\* a faulty alive_indices: the dead snakes are listed too
alive_indices_all(roster) == [i \in 1 .. Len(roster) |-> i]

\* alive_snakes = [s for s in self.snakes if s.alive], as roster indices
alive_indices(roster) ==
    SelectSeq([i \in 1 .. Len(roster) |-> i], LAMBDA i : roster[i].alive)

\* `for snake in alive_snakes: snake.move()`
move_all(roster, alive_snakes) ==
    [i \in 1 .. Len(roster) |->
        IF InSeq(i, alive_snakes) THEN move(roster[i], GRID_WIDTH, GRID_HEIGHT).snake
        ELSE roster[i]]

\* a faulty food_points: the double-points effect is not looked at
food_points_undoubled(s) == (FOOD_VALUE * EASY.multiplier) \div 2

\* the points a snake is awarded for the food
food_points(s) ==
    LET points == (FOOD_VALUE * EASY.multiplier) \div 2
    IN  IF "double_points" \in DOMAIN s.power_ups THEN points * 2 ELSE points

\* a faulty eat: the snake grows and is awarded nothing
eat_unscored(s) == grow(s, FOOD_GROWTH)

\* a snake after eating: snake.grow(2); snake.score += points
eat(s) == [grow(s, FOOD_GROWTH) EXCEPT !.score = @ + food_points(s)]

\* the food loop from its k-th snake on; g = [snakes, food, hung, drawn], rs[k] is
\* the cell respawn_food ends on for the k-th snake, g.drawn whether every cell
\* used so far is one respawn_food can end on
RECURSIVE food_loop(_, _, _, _)
food_loop(g, alive_snakes, k, rs) ==
    IF k > Len(alive_snakes) \/ g.hung THEN g
    ELSE LET i == alive_snakes[k]
         IN  IF g.snakes[i].positions[1] = g.food
             THEN LET fed == [g.snakes EXCEPT ![i] = eat(@)]
                  IN  IF respawn_food(fed) = {}
                      THEN [g EXCEPT !.snakes = fed, !.hung = TRUE]
                      ELSE food_loop([g EXCEPT !.snakes = fed, !.food = rs[k],
                                               !.drawn = @ /\ rs[k] \in respawn_food(fed)],
                                     alive_snakes, k + 1, rs)
             ELSE food_loop(g, alive_snakes, k + 1, rs)

\* the power-up loop from its k-th snake on; g = [snakes, active_powerups]
RECURSIVE powerup_loop(_, _, _, _)
powerup_loop(g, alive_snakes, k, current_time) ==
    IF k > Len(alive_snakes) THEN g
    ELSE LET i == alive_snakes[k]
             hit == check_collision(g.active_powerups, g.snakes[i].positions[1])
         IN  IF hit # 0
             THEN powerup_loop(
                    [snakes |-> [g.snakes EXCEPT ![i] =
                                    add_power_up(@, g.active_powerups[hit].type,
                                                 g.active_powerups[hit].duration, current_time)],
                     active_powerups |-> RemoveAt(g.active_powerups, hit)],
                    alive_snakes, k + 1, current_time)
             ELSE powerup_loop(g, alive_snakes, k + 1, current_time)

\* a faulty rams: only a head on a head counts
rams_heads_only(roster, alive_snakes, i) ==
    \E a, b \in 1 .. Len(alive_snakes) :
        /\ a # b
        /\ alive_snakes[a] = i
        /\ roster[i].invulnerable_time <= 0
        /\ roster[i].positions[1] = roster[alive_snakes[b]].positions[1]

\* whether the snake-to-snake loops set roster[i].alive = False
rams(roster, alive_snakes, i) ==
    \E a, b \in 1 .. Len(alive_snakes) :
        /\ a # b
        /\ alive_snakes[a] = i
        /\ roster[i].invulnerable_time <= 0
        /\ InSeq(roster[i].positions[1], roster[alive_snakes[b]].positions)

\* the snake-to-snake collision check
snake_collisions(roster, alive_snakes, multi) ==
    IF multi /\ Len(alive_snakes) > 1
    THEN [i \in 1 .. Len(roster) |->
            IF rams(roster, alive_snakes, i) THEN [roster[i] EXCEPT !.alive = FALSE]
            ELSE roster[i]]
    ELSE roster

\* the movement loop run snake by snake in the order given, from its k-th snake on
RECURSIVE move_in_order(_, _, _)
move_in_order(roster, order, k) ==
    IF k > Len(order) THEN roster
    ELSE move_in_order([roster EXCEPT ![order[k]] = move(@, GRID_WIDTH, GRID_HEIGHT).snake],
                       order, k + 1)

\* a faulty collides: only living snakes collide, as the loops have left them
collides_living(roster, i, j) ==
    /\ roster[i].alive /\ roster[j].alive
    /\ roster[i].invulnerable_time <= 0
    /\ InSeq(roster[i].positions[1], roster[j].positions)

\* the test of the snake-to-snake loops for snake1 = roster[i], snake2 = roster[j]
collides(roster, i, j) ==
    /\ roster[i].invulnerable_time <= 0
    /\ InSeq(roster[i].positions[1], roster[j].positions)

\* the snake-to-snake loops run pair by pair over the list `order`, from the n-th
\* pair on; the pairs are numbered row by row
RECURSIVE collide_in_order(_, _, _)
collide_in_order(roster, order, n) ==
    IF n > Len(order) * Len(order) THEN roster
    ELSE LET a == ((n - 1) \div Len(order)) + 1
             b == ((n - 1) % Len(order)) + 1
         IN  collide_in_order(
                 IF a # b /\ collides(roster, order[a], order[b])
                 THEN [roster EXCEPT ![order[a]].alive = FALSE]
                 ELSE roster,
                 order, n + 1)

\* the roster at the end of a tick without food whose movement loop runs in the
\* order moving and whose snake-to-snake loops run in the order colliding; both
\* list the snakes alive at the start
tick_in_order(roster, powerups, multi, moving, colliding) ==
    LET moved == move_in_order(roster, moving, 1)
        picked == IF EASY.powerups
                  THEN powerup_loop([snakes |-> moved, active_powerups |-> powerups],
                                    alive_indices(roster), 1, 0).snakes
                  ELSE moved
    IN  IF multi /\ Len(colliding) > 1 THEN collide_in_order(picked, colliding, 1) ELSE picked

\* a faulty game_is_over: the round never ends
game_is_over_never(roster) == FALSE

\* a faulty game_is_over: one dead snake ends the round
game_is_over_any_dead(roster) == \E i \in 1 .. Len(roster) : ~roster[i].alive

\* `not any(snake.alive for snake in self.snakes)`
game_is_over(roster) == ~(\E i \in 1 .. Len(roster) : roster[i].alive)

\* a faulty winner: the last snake of the greatest score
winner_last(roster) ==
    roster[CHOOSE i \in 1 .. Len(roster) :
              /\ \A j \in 1 .. Len(roster) : roster[j].score <= roster[i].score
              /\ \A j \in i + 1 .. Len(roster) : roster[j].score < roster[i].score]

\* max(self.snakes, key=lambda s: s.score): the first snake of the greatest score
winner(roster) ==
    roster[CHOOSE i \in 1 .. Len(roster) :
              /\ \A j \in 1 .. Len(roster) : roster[j].score <= roster[i].score
              /\ \A j \in 1 .. i - 1 : roster[j].score < roster[i].score]

\* f"Player {winner.player_id}"
player_name(s) == IF s.player_id = 1 THEN "Player 1" ELSE "Player 2"

\* the high scores after the game-over branch
record_scores(scores, roster, multi) ==
    IF multi
    THEN add_score(scores, winner(roster).score, player_name(winner(roster)), "multi")
    ELSE add_score(scores, roster[1].score, "Player", "single")

\* max(snake.speed_multiplier for snake in self.snakes if snake.alive), in halves
max_speed_multiplier(roster) ==
    LET ms == {roster[i].speed_multiplier : i \in {j \in 1 .. Len(roster) : roster[j].alive}}
    IN  CHOOSE m \in ms : \A n \in ms : n <= m

\* a faulty move_due: every update in PLAYING ticks
move_due_always(timer, roster) == TRUE

\* self.move_timer >= move_interval, with move_interval = 1.0 / (speed * multiplier)
\* and the multiplier in halves: timer >= 2 / (speed * m)  <=>  timer * speed * m >= 2
move_due(timer, roster) == timer * EASY.speed * max_speed_multiplier(roster) >= 2

(***************************************************************************)
(* Game.update.                                                             *)
(***************************************************************************)
\* `self.last_update_time = current_time`, seen from the stored clock readings:
\* each is dt further in the past afterwards
rebase_snake(s, dt) == [s EXCEPT !.power_ups = [t \in DOMAIN @ |-> @[t] - dt]]
rebase_snakes(roster, dt) == [i \in 1 .. Len(roster) |-> rebase_snake(roster[i], dt)]
rebase_powerups(powerups, dt) ==
    [k \in 1 .. Len(powerups) |-> [powerups[k] EXCEPT !.spawn_time = @ - dt]]

\* whether any clock reading is stored
readings_stored ==
    \/ active_powerups # <<>>
    \/ \E i \in 1 .. Len(snakes) : DOMAIN snakes[i].power_ups # {}

\* a faulty UpdateIdle: the move timer runs on outside PLAYING
UpdateIdleTiming(dt) ==
    /\ ~hung
    /\ state # "playing"
    /\ idle + dt <= MaxIdle
    /\ idle' = IF readings_stored THEN idle + dt ELSE idle
    /\ snakes' = rebase_snakes(snakes, dt)
    /\ active_powerups' = rebase_powerups(active_powerups, dt)
    /\ move_timer' = move_timer + dt
    /\ UNCHANGED <<state, multiplayer, selected_option, food, spawn_timer,
                   high_scores, hung, heading_used, ticks, played, rounds>>

\* Game.update outside PLAYING: only the clock is read
UpdateIdle(dt) ==
    /\ ~hung
    /\ state # "playing"
    /\ idle + dt <= MaxIdle
    /\ idle' = IF readings_stored THEN idle + dt ELSE idle
    /\ snakes' = rebase_snakes(snakes, dt)
    /\ active_powerups' = rebase_powerups(active_powerups, dt)
    /\ UNCHANGED <<state, multiplayer, selected_option, food, spawn_timer, move_timer,
                   high_scores, hung, heading_used, ticks, played, rounds>>

\* the simulation tick of Game.update on the roster `aged`, with the power-up
\* manager already updated to pm; rs are the cells respawn_food ends on
Tick(aged, pm, dt, current_time, rs, env) ==
    LET alive_snakes == alive_indices(aged)
        moved == move_all(aged, alive_snakes)
        fed == food_loop([snakes |-> moved, food |-> food, hung |-> FALSE, drawn |-> TRUE],
                         alive_snakes, 1, rs)
        picked == IF EASY.powerups
                  THEN powerup_loop([snakes |-> fed.snakes,
                                     active_powerups |-> pm.active_powerups],
                                    alive_snakes, 1, current_time)
                  ELSE [snakes |-> fed.snakes, active_powerups |-> pm.active_powerups]
        collided == snake_collisions(picked.snakes, alive_snakes, multiplayer)
    IN  /\ fed.drawn
        /\ ticks < env.ticks
        /\ ticks' = ticks + 1
        /\ move_timer' = 0
        /\ spawn_timer' = pm.spawn_timer
        /\ heading_used' = [i \in 1 .. Len(aged) |->
                               IF InSeq(i, alive_snakes) THEN aged[i].direction
                               ELSE heading_used[i]]
        /\ IF fed.hung
           THEN /\ hung' = TRUE
                /\ snakes' = rebase_snakes(fed.snakes, dt)
                /\ active_powerups' = rebase_powerups(pm.active_powerups, dt)
                /\ UNCHANGED <<food, state, high_scores>>
           ELSE /\ hung' = FALSE
                /\ snakes' = rebase_snakes(collided, dt)
                /\ food' = fed.food
                /\ active_powerups' = rebase_powerups(picked.active_powerups, dt)
                /\ IF game_is_over(collided)
                   THEN /\ state' = "game_over"
                        /\ high_scores' = record_scores(high_scores, collided, multiplayer)
                   ELSE UNCHANGED <<state, high_scores>>

\* the cells respawn_food may be asked for in a tick: one per alive snake; a
\* single dummy when no moved head is on the food
respawn_draws(aged) ==
    LET alive_snakes == alive_indices(aged)
        moved == move_all(aged, alive_snakes)
    IN  IF \E k \in 1 .. Len(alive_snakes) : moved[alive_snakes[k]].positions[1] = food
        THEN [1 .. Len(alive_snakes) -> generate_position]
        ELSE {[k \in 1 .. Len(alive_snakes) |-> <<0, 0>>]}

\* Game.update in PLAYING after dt seconds; env bounds the exploration: the ticks
\* and seconds of play per round, and the draws of spawn_powerup
UpdatePlaying(dt, env) ==
    /\ ~hung
    /\ state = "playing"
    /\ played + dt <= env.played
    /\ played' = played + dt
    /\ UNCHANGED <<multiplayer, selected_option, idle, rounds>>
    /\ LET current_time == dt
           aged == [i \in 1 .. Len(snakes) |-> snake_update(snakes[i], dt, current_time)]
           spawning == EASY.powerups /\ spawn_due(spawn_timer + dt,
                                                  unexpired(active_powerups, current_time))
       IN  \E draw \in IF spawning THEN env.draws ELSE {<<"speed_boost", <<0, 0>>>>} :
             LET pm == IF EASY.powerups
                       THEN powerup_manager_update(active_powerups, spawn_timer, dt,
                                                   current_time, draw)
                       ELSE [active_powerups |-> active_powerups, spawn_timer |-> spawn_timer]
             IN  IF move_due(move_timer + dt, aged)
                 THEN \E rs \in respawn_draws(aged) : Tick(aged, pm, dt, current_time, rs, env)
                 ELSE /\ move_timer' = move_timer + dt
                      /\ snakes' = rebase_snakes(aged, dt)
                      /\ active_powerups' = rebase_powerups(pm.active_powerups, dt)
                      /\ spawn_timer' = pm.spawn_timer
                      /\ UNCHANGED <<state, food, high_scores, hung, heading_used, ticks>>

(***************************************************************************)
(* Game.handle_events: one event of the queue per step.                     *)
(***************************************************************************)
\* MenuSystem.handle_menu_input, K_UP and K_DOWN
MenuMove(key) ==
    /\ ~hung /\ state = "menu"
    /\ key \in {"UP", "DOWN"}
    /\ selected_option' = IF key = "UP"
                          THEN (selected_option - 1) % Len(menu_options)
                          ELSE (selected_option + 1) % Len(menu_options)
    /\ UNCHANGED <<state, multiplayer, snakes, food, active_powerups, spawn_timer, move_timer,
                   high_scores, hung, heading_used, ticks, played, idle,
                   rounds>>

\* K_RETURN in the menu on "Single Player" or "Multiplayer"; env.rounds bounds
\* the rounds explored
MenuStart(env) ==
    /\ ~hung /\ state = "menu"
    /\ menu_options[selected_option + 1] \in {"Single Player", "Multiplayer"}
    /\ rounds < env.rounds
    /\ multiplayer' = (menu_options[selected_option + 1] = "Multiplayer")
    /\ state' = "playing"
    /\ reset_game(multiplayer')
    /\ UNCHANGED <<selected_option, high_scores>>

\* K_RETURN in the menu on "High Scores" or "Settings"
MenuScreen ==
    /\ ~hung /\ state = "menu"
    /\ menu_options[selected_option + 1] \in {"High Scores", "Settings"}
    /\ state' = IF menu_options[selected_option + 1] = "High Scores"
                THEN "high_scores" ELSE "settings"
    /\ UNCHANGED <<multiplayer, selected_option, snakes, food, active_powerups, spawn_timer,
                   move_timer, high_scores, hung, heading_used, ticks,
                   played, idle, rounds>>

\* a key while PLAYING: K_ESCAPE pauses, any other key goes to the snakes' controls
PlayingKey(key) ==
    /\ ~hung /\ state = "playing"
    /\ IF key = "ESCAPE"
       THEN state' = "paused" /\ UNCHANGED snakes
       ELSE /\ UNCHANGED state
            /\ snakes' = [i \in 1 .. Len(snakes) |->
                             IF key \in DOMAIN controls(snakes[i])
                             THEN change_direction(snakes[i], controls(snakes[i])[key])
                             ELSE snakes[i]]
    /\ UNCHANGED <<multiplayer, selected_option, food, active_powerups, spawn_timer,
                   move_timer, high_scores, hung, heading_used, ticks,
                   played, idle, rounds>>

\* a key while PAUSED: K_ESCAPE resumes, K_r restarts, K_m abandons; a round is
\* left only while env.rounds lets another one start
PausedKey(key, env) ==
    /\ ~hung /\ state = "paused"
    /\ key \in {"ESCAPE", "r", "m"}
    /\ key \in {"r", "m"} => rounds < env.rounds
    /\ IF key = "r"
       THEN reset_game(multiplayer) /\ state' = "playing"
       ELSE /\ state' = IF key = "ESCAPE" THEN "playing" ELSE "menu"
            /\ UNCHANGED <<snakes, food, active_powerups, spawn_timer, move_timer, hung,
                           heading_used, ticks, played, idle, rounds>>
    /\ UNCHANGED <<multiplayer, selected_option, high_scores>>

\* a key while GAME_OVER: K_r restarts, K_m returns to the menu
GameOverKey(key, env) ==
    /\ ~hung /\ state = "game_over"
    /\ key \in {"r", "m"}
    /\ rounds < env.rounds
    /\ IF key = "r"
       THEN reset_game(multiplayer) /\ state' = "playing"
       ELSE /\ state' = "menu"
            /\ UNCHANGED <<snakes, food, active_powerups, spawn_timer, move_timer, hung,
                           heading_used, ticks, played, idle, rounds>>
    /\ UNCHANGED <<multiplayer, selected_option, high_scores>>

\* a faulty ScreenKey: K_ESCAPE on a screen goes back into the round
ScreenKeyResumes ==
    /\ ~hung /\ state \in {"high_scores", "settings"}
    /\ state' = "playing"
    /\ UNCHANGED <<multiplayer, selected_option, snakes, food, active_powerups, spawn_timer,
                   move_timer, high_scores, hung, heading_used, ticks,
                   played, idle, rounds>>

\* K_ESCAPE on the high-score or the settings screen
ScreenKey ==
    /\ ~hung /\ state \in {"high_scores", "settings"}
    /\ state' = "menu"
    /\ UNCHANGED <<multiplayer, selected_option, snakes, food, active_powerups, spawn_timer,
                   move_timer, high_scores, hung, heading_used, ticks,
                   played, idle, rounds>>

(***************************************************************************)
(* One round under every input: all keys, both modes, pauses, frames of 0   *)
(* and 1 second.  Within MaxTicks ticks no power-up spawns.                 *)
(***************************************************************************)
GameEnv == [ticks |-> MaxTicks, played |-> MaxPlayed, rounds |-> 2, draws |-> spawn_draws]

Next ==
    \/ \E dt \in {0, 1} : UpdateIdle(dt)
    \/ \E dt \in {0, 1} : UpdatePlaying(dt, GameEnv)
    \/ \E key \in Keys : MenuMove(key)
    \/ MenuStart(GameEnv)
    \/ MenuScreen
    \/ \E key \in Keys : PlayingKey(key)
    \/ \E key \in Keys : PausedKey(key, GameEnv)
    \/ ScreenKey

Spec == Init /\ [][Next]_vars

(***************************************************************************)
(* Several short rounds: the whole state machine, restarts and the high     *)
(* scores.                                                                  *)
(***************************************************************************)
RoundsEnv == [ticks |-> RoundTicks, played |-> MaxPlayed, rounds |-> MaxRounds,
              draws |-> spawn_draws]

NextRounds ==
    \/ \E dt \in {0, 1} : UpdateIdle(dt)
    \/ \E dt \in {0, 1} : UpdatePlaying(dt, RoundsEnv)
    \/ \E key \in Keys : MenuMove(key)
    \/ MenuStart(RoundsEnv)
    \/ MenuScreen
    \/ \E key \in Keys : PlayingKey(key)
    \/ \E key \in Keys : PausedKey(key, RoundsEnv)
    \/ \E key \in Keys : GameOverKey(key, RoundsEnv)
    \/ ScreenKey

SpecRounds == Init /\ [][NextRounds]_vars

(***************************************************************************)
(* A single-player round with power-ups: frames of 1 and 11 seconds, so     *)
(* that the spawn interval passes within the round; no pause.               *)
(***************************************************************************)
PowerEnv == [ticks |-> MaxTicks, played |-> MaxPlayed, rounds |-> 2, draws |-> spawn_draws]

NextPower ==
    \/ \E dt \in {1, 11} : UpdatePlaying(dt, PowerEnv)
    \/ MenuStart(PowerEnv)
    \/ \E key \in DOMAIN p1_controls : PlayingKey(key)

SpecPower == Init /\ [][NextPower]_vars

(***************************************************************************)
(* A single-player round long enough for two power-ups to spawn and to be   *)
(* collected one tick after the other; spawn_powerup draws one of two types. *)
(***************************************************************************)
RepeatEnv == [ticks |-> RepeatTicks, played |-> RepeatPlayed, rounds |-> 2,
              draws |-> {"speed_boost", "wall_phase"} \X Cells(GRID_WIDTH, GRID_HEIGHT)]

NextRepeat ==
    \/ \E dt \in {1, 11} : UpdatePlaying(dt, RepeatEnv)
    \/ MenuStart(RepeatEnv)
    \/ \E key \in DOMAIN p1_controls : PlayingKey(key)

SpecRepeat == Init /\ [][NextRepeat]_vars

(***************************************************************************)
(* Rounds of one or two snakes with power-ups: every heading key of both    *)
(* players, frames of 1 and 11 seconds; spawn_powerup draws double points.  *)
(***************************************************************************)
DuelEnv == [ticks |-> DuelTicks, played |-> MaxPlayed, rounds |-> 2,
            draws |-> {"double_points"} \X Cells(GRID_WIDTH, GRID_HEIGHT)]

NextDuel ==
    \/ \E dt \in {1, 11} : UpdatePlaying(dt, DuelEnv)
    \/ \E key \in Keys : MenuMove(key)
    \/ MenuStart(DuelEnv)
    \/ \E key \in DOMAIN p1_controls \cup DOMAIN p2_controls : PlayingKey(key)

SpecDuel == Init /\ [][NextDuel]_vars

(***************************************************************************)
(* A single-player round long enough for the effects of a speed boost and   *)
(* of a slow-down to overlap and for one to expire before the other: frames *)
(* of 1, 5 and 11 seconds; spawn_powerup draws a cell of the last column.   *)
(***************************************************************************)
OverlapEnv == [ticks |-> OverlapTicks, played |-> OverlapPlayed, rounds |-> 2,
               draws |-> {"speed_boost", "slow_down"}
                            \X {c \in Cells(GRID_WIDTH, GRID_HEIGHT) : c[1] = GRID_WIDTH - 1}]

NextOverlap ==
    \/ \E dt \in {1, 5, 11} : UpdatePlaying(dt, OverlapEnv)
    \/ MenuStart(OverlapEnv)
    \/ \E key \in DOMAIN p1_controls : PlayingKey(key)

SpecOverlap == Init /\ [][NextOverlap]_vars

(***************************************************************************)
(* The straight run: one snake on a 10 x 10 grid, placed as reset_game      *)
(* places the first snake, heading (1,0), no wall-phase, no power-up, no    *)
(* key; Snake.move and Snake.grow are called in any order.                  *)
(***************************************************************************)
ScenarioGrid == [W |-> 10, H |-> 10]

ScenarioInit ==
    /\ state = "playing"
    /\ multiplayer = FALSE
    /\ selected_option = 0
    /\ snakes = <<Snake(1, <<ScenarioGrid.W \div 4, ScenarioGrid.H \div 2>>)>>
    /\ heading_used = <<<<0, 0>>>>
    /\ food = <<0, 0>>
    /\ active_powerups = <<>>
    /\ spawn_timer = 0
    /\ move_timer = 0
    /\ high_scores = [single |-> <<>>, multi |-> <<>>]
    /\ hung = FALSE
    /\ ticks = 0
    /\ played = 0
    /\ idle = 0
    /\ rounds = 1

\* snake.move(); ticks counts the calls
ScenarioAdvance ==
    /\ ticks < ScenarioAdvances
    /\ ticks' = ticks + 1
    /\ snakes' = <<move(snakes[1], ScenarioGrid.W, ScenarioGrid.H).snake>>
    /\ heading_used' = <<IF snakes[1].alive THEN snakes[1].direction ELSE heading_used[1]>>
    /\ UNCHANGED <<state, multiplayer, selected_option, food, active_powerups, spawn_timer,
                   move_timer, high_scores, hung, played, idle, rounds>>

\* snake.grow(2), as for a food eaten
ScenarioGrow ==
    /\ Len(snakes[1].positions) + snakes[1].grow_pending < 1 + FOOD_GROWTH * ScenarioGrowths
    /\ snakes' = <<grow(snakes[1], FOOD_GROWTH)>>
    /\ UNCHANGED <<state, multiplayer, selected_option, food, active_powerups, spawn_timer,
                   move_timer, high_scores, hung, heading_used, ticks, played, idle, rounds>>

NextScenario == ScenarioAdvance \/ ScenarioGrow

SpecScenario == ScenarioInit /\ [][NextScenario]_vars

(***************************************************************************)
(* A single-player round with power-ups and pauses: frames of 1 and 11      *)
(* seconds of play, 6 and 16 seconds pass between two updates of a pause;   *)
(* a paused round can be resumed, restarted or abandoned.                   *)
(***************************************************************************)
PauseEnv == [ticks |-> RoundTicks, played |-> MaxPlayed, rounds |-> MaxRounds,
             draws |-> spawn_draws]

NextPause ==
    \/ \E dt \in {6, 16} : UpdateIdle(dt)
    \/ \E dt \in {1, 11} : UpdatePlaying(dt, PauseEnv)
    \/ MenuStart(PauseEnv)
    \/ \E key \in DOMAIN p1_controls \cup {"ESCAPE"} : PlayingKey(key)
    \/ \E key \in Keys : PausedKey(key, PauseEnv)

SpecPause == Init /\ [][NextPause]_vars

(***************************************************************************)
(* Rounds with power-ups that are left and entered in every way: start from *)
(* the menu in either mode, pause and resume, restart from PAUSED and from   *)
(* GAME_OVER, return to the menu.                                           *)
(***************************************************************************)
NextRestart ==
    \/ \E dt \in {6} : UpdateIdle(dt)
    \/ \E dt \in {1, 11} : UpdatePlaying(dt, PauseEnv)
    \/ \E key \in Keys : MenuMove(key)
    \/ MenuStart(PauseEnv)
    \/ \E key \in {"ESCAPE"} : PlayingKey(key)
    \/ \E key \in Keys : PausedKey(key, PauseEnv)
    \/ \E key \in Keys : GameOverKey(key, PauseEnv)

SpecRestart == Init /\ [][NextRestart]_vars

(***************************************************************************)
(* Snake.add_power_up on a lone snake: a straight body of any length up to  *)
(* MaxBody, head on the right, is given power-ups of any type one after the *)
(* other at one clock reading.                                              *)
(***************************************************************************)
StraightBody(n) == [k \in 1 .. n |-> <<n - k, 0>>]

ApplyInit ==
    /\ state = "playing"
    /\ multiplayer = FALSE
    /\ selected_option = 0
    /\ \E n \in 1 .. MaxBody :
          snakes = <<[Snake(1, <<n - 1, 0>>) EXCEPT !.positions = StraightBody(n)]>>
    /\ heading_used = <<<<0, 0>>>>
    /\ food = <<0, 1>>
    /\ active_powerups = <<>>
    /\ spawn_timer = 0
    /\ move_timer = 0
    /\ high_scores = [single |-> <<>>, multi |-> <<>>]
    /\ hung = FALSE
    /\ ticks = 0
    /\ played = 0
    /\ idle = 0
    /\ rounds = 1

\* snake.add_power_up(powerup.type, powerup.duration, current_time); ticks counts
\* the calls
ApplyPowerUp(powerup_type) ==
    /\ ticks < MaxApplications
    /\ ticks' = ticks + 1
    /\ snakes' = <<add_power_up(snakes[1], powerup_type, POWERUP_DURATION, 0)>>
    /\ UNCHANGED <<state, multiplayer, selected_option, food, active_powerups, spawn_timer,
                   move_timer, high_scores, hung, heading_used, played, idle, rounds>>

NextApply == \E powerup_type \in PowerUpType : ApplyPowerUp(powerup_type)

SpecApply == ApplyInit /\ [][NextApply]_vars

(***************************************************************************)
(* Properties.                                                              *)
(***************************************************************************)
\* C1: after every reset and at the end of every tick the food's cell is not a
\* cell of any snake of the roster, alive or dead (a tick that stays inside
\* respawn_food for good, the snakes covering the grid, has no end)
C1_FoodOffSnakes ==
    ~hung => \A i \in 1 .. Len(snakes) : ~InSeq(food, snakes[i].positions)

\* a tick has respawned the food for one snake while another one lies dead
C1_Witness ==
    /\ state = "playing" /\ multiplayer
    /\ \E i, j \in 1 .. Len(snakes) :
          /\ i # j
          /\ snakes[i].score > 0 /\ snakes[i].alive /\ Len(snakes[i].positions) > 1
          /\ ~snakes[j].alive

\* C2: every body cell of every snake, the food and every active power-up lie in
\* [0,W) x [0,H); a snake without wall-phase never leaves the grid and the head of
\* a snake with wall-phase is reduced modulo W and H
C2_PositionsInGrid ==
    /\ \A i \in 1 .. Len(snakes) : \A k \in 1 .. Len(snakes[i].positions) :
          snakes[i].positions[k] \in Cells(GRID_WIDTH, GRID_HEIGHT)
    /\ food \in Cells(GRID_WIDTH, GRID_HEIGHT)
    /\ \A k \in 1 .. Len(active_powerups) :
          active_powerups[k].position \in Cells(GRID_WIDTH, GRID_HEIGHT)

\* a snake with wall-phase has advanced upwards out of row 0 and is on the last row
C2_Witness ==
    \E i \in 1 .. Len(snakes) :
        /\ snakes[i].alive /\ snakes[i].wall_phase
        /\ heading_used[i] = <<0, -1>>
        /\ snakes[i].positions[1][2] = GRID_HEIGHT - 1

\* whether this step is a simulation tick that ran to its end
TickStep == ticks' = ticks + 1 /\ ~hung'

\* whether snake i advanced in this tick: its head is on another cell
Advanced(i) == snakes'[i].positions[1] # snakes[i].positions[1]

\* the length of snake i after the movement step of this tick
LengthMoved(i) ==
    IF Advanced(i) /\ snakes[i].grow_pending > 0
    THEN Len(snakes[i].positions) + 1
    ELSE Len(snakes[i].positions)

\* whether snake i was given a shrink power-up in this tick
ShrinkApplied(i) ==
    /\ "shrink" \in DOMAIN snakes'[i].power_ups
    /\ snakes'[i].power_ups["shrink"] = POWERUP_DURATION

NoDuplicates(positions) ==
    \A a, b \in 1 .. Len(positions) : a # b => positions[a] # positions[b]

\* C4: a snake whose remaining invulnerability is <= 0 has no cell twice in its
\* body, and every body has at least one cell
C4_NoDuplicateCells ==
    \A i \in 1 .. Len(snakes) :
        /\ snakes[i].invulnerable_time <= 0 => NoDuplicates(snakes[i].positions)
        /\ Len(snakes[i].positions) >= 1

\* C5: between two consecutive advances of a snake, whatever keys arrive, the
\* heading of the later advance is never the exact reverse of the earlier one
C5_NoReversal ==
    [][\A i \in 1 .. Len(snakes) :
          (TickStep /\ snakes[i].alive /\ heading_used[i] # <<0, 0>>) =>
             heading_used'[i] # <<heading_used[i][1] * (-1), heading_used[i][2] * (-1)>>]_vars

\* C7: a tick moves the match from playing to game_over exactly when no snake
\* of the roster is alive at its end, and game_over is never entered while some
\* snake is alive
C7_RoundEndsIffNoneAlive ==
    [][/\ (state = "playing" /\ TickStep) =>
             (state' = "game_over" <=> \A i \in 1 .. Len(snakes') : ~snakes'[i].alive)
       /\ (state # "game_over" /\ state' = "game_over") =>
             /\ state = "playing" /\ TickStep
             /\ \A i \in 1 .. Len(snakes') : ~snakes'[i].alive]_vars

\* a two-player round has ended at its second tick, a snake having scored
C7_Witness ==
    /\ state = "game_over" /\ multiplayer
    /\ ticks = 2
    /\ \E i \in 1 .. Len(snakes) : snakes[i].score > 0

\* the sequence with entry put in as its k-th element
InsertAt(seq, k, entry) == SubSeq(seq, 1, k - 1) \o <<entry>> \o SubSeq(seq, k, Len(seq))

\* the entry a round's end records: the only snake's score in a single-player
\* round, the greatest score under the name of its first holder otherwise
RecordedEntry(roster, multi) ==
    IF multi
    THEN LET best == CHOOSE i \in 1 .. Len(roster) :
                        /\ \A j \in 1 .. Len(roster) : roster[j].score <= roster[i].score
                        /\ \A j \in 1 .. i - 1 : roster[j].score # roster[i].score
         IN  [name |-> IF best = 1 THEN "Player 1" ELSE "Player 2", score |-> roster[best].score]
    ELSE [name |-> "Player", score |-> roster[1].score]

\* C8: the step that enters game_over adds exactly one entry to the list of the
\* round's mode: the only snake's score in single-player, the greatest score in
\* multiplayer with a tie going to the lowest roster index; no other step
\* changes the high scores
C8_OneScorePerRound ==
    [][IF state # "game_over" /\ state' = "game_over"
       THEN LET mode == IF multiplayer THEN "multi" ELSE "single"
                other == IF multiplayer THEN "single" ELSE "multi"
                entry == RecordedEntry(snakes', multiplayer)
            IN  /\ high_scores'[other] = high_scores[other]
                /\ \E k \in 1 .. Len(high_scores[mode]) + 1 :
                      high_scores'[mode] =
                          Prefix(InsertAt(high_scores[mode], k, entry),
                                 IF Len(high_scores[mode]) + 1 < TOP_SCORES
                                 THEN Len(high_scores[mode]) + 1 ELSE TOP_SCORES)
       ELSE high_scores' = high_scores]_vars

\* a two-player round has ended in a tie above zero, recorded for Player 1
C8_Witness ==
    /\ state = "game_over" /\ multiplayer
    /\ snakes[1].score = snakes[2].score /\ snakes[1].score > 0
    /\ \E k \in 1 .. Len(high_scores.multi) :
          high_scores.multi[k] = [name |-> "Player 1", score |-> snakes[1].score]

\* the state changes of the match
Transitions ==
    {<<"menu", "playing">>, <<"playing", "paused">>, <<"paused", "playing">>,
     <<"paused", "menu">>, <<"playing", "game_over">>, <<"game_over", "playing">>,
     <<"game_over", "menu">>, <<"menu", "high_scores">>, <<"high_scores", "menu">>,
     <<"menu", "settings">>, <<"settings", "menu">>}

\* C9: the match starts in menu and every change of state is one of Transitions
C9_StateMachine ==
    /\ state = "menu"
    /\ [][state' # state => <<state, state'>> \in Transitions]_vars

\* a round has ended and a later round is paused
C9_Witness ==
    /\ state = "paused"
    /\ rounds = MaxRounds
    /\ Len(high_scores.single) + Len(high_scores.multi) >= 1

\* whether snake i was given power-up type T in this tick while T was active on it
Reapplied(i, T) ==
    /\ snakes[i].alive
    /\ T \in DOMAIN snake_update(snakes[i], played' - played, played' - played).power_ups
    /\ T \in DOMAIN snakes'[i].power_ups
    /\ snakes'[i].power_ups[T] = POWERUP_DURATION

\* snake i as the tick's movement step leaves it, before any power-up is applied
BeforeApplication(i) ==
    move(snake_update(snakes[i], played' - played, played' - played),
         GRID_WIDTH, GRID_HEIGHT).snake

\* C6: applying a power-up type again while it is active on a snake only
\* refreshes its expiry: body, speed multiplier, wall-phase flag and remaining
\* invulnerability are after the application what they were before it
C6_ReapplyOnlyRefreshes ==
    [][\A i \in 1 .. Len(snakes) : \A T \in PowerUpType :
          (TickStep /\ Reapplied(i, T)) =>
             /\ snakes'[i].positions = BeforeApplication(i).positions
             /\ snakes'[i].speed_multiplier = BeforeApplication(i).speed_multiplier
             /\ snakes'[i].wall_phase = BeforeApplication(i).wall_phase
             /\ snakes'[i].invulnerable_time = BeforeApplication(i).invulnerable_time]_vars

\* C10 as stated: on the 10 x 10 grid the snake started at (2,5) heading (1,0)
\* is alive with its head on (9,5) after 8 advances and dead after the 9th
C10_RunAsStated ==
    /\ ticks = 8 => snakes[1].alive /\ snakes[1].positions[1] = <<9, 5>>
    /\ ticks = 9 => ~snakes[1].alive

\* C10: on the 10 x 10 grid the snake starts on (2,5) heading (1,0), is alive
\* with its head on (2 + k, 5) after k <= 7 advances, so on (9,5) after the 7th,
\* and the 8th advance kills it with its head left on (9,5)
C10_RunAmended ==
    /\ ticks = 0 => snakes[1].positions[1] = <<2, 5>> /\ snakes[1].direction = <<1, 0>>
    /\ ticks <= 7 => snakes[1].alive /\ snakes[1].positions[1] = <<2 + ticks, 5>>
    /\ ticks >= 8 => ~snakes[1].alive /\ snakes[1].positions[1] = <<9, 5>>

\* the 8th advance has been made and has killed the snake on (9,5)
C10_Witness ==
    /\ ticks = 8
    /\ ~snakes[1].alive
    /\ snakes[1].positions[1] = <<9, 5>>
    /\ heading_used[1] = <<1, 0>>

\* the seconds of play this step adds
Elapsed == played' - played

\* snake i as this update's Snake.update leaves it, before the tick moves it
Aged(i) == snake_update(snakes[i], Elapsed, Elapsed)

\* the cell Snake.move tries as the new head of s, written out from the rules: one
\* step along the heading, reduced modulo W and H under wall-phase
NewHead(s, W, H) ==
    IF s.wall_phase
    THEN <<(s.positions[1][1] + s.direction[1]) % W, (s.positions[1][2] + s.direction[2]) % H>>
    ELSE <<s.positions[1][1] + s.direction[1], s.positions[1][2] + s.direction[2]>>

\* the seconds of play since wall-phase was last applied to s, the update under
\* way included (no pause in between)
SinceWallPhase(s) == POWERUP_DURATION - s.power_ups["wall_phase"] + Elapsed

\* C11 as stated: a snake with wall-phase whose head is on (x,0) with heading
\* (0,-1) advances to (x,H-1) without dying, and an advance onto its own body
\* within the 2 seconds after wall-phase was applied does not kill it
C11_WrapAsStated ==
    [][\A i \in 1 .. Len(snakes) :
          (TickStep /\ snakes[i].alive /\ Aged(i).wall_phase) =>
             /\ (Aged(i).positions[1][2] = 0 /\ Aged(i).direction = <<0, -1>>) =>
                   /\ snakes'[i].alive
                   /\ snakes'[i].positions[1] = <<Aged(i).positions[1][1], GRID_HEIGHT - 1>>
             /\ (SinceWallPhase(snakes[i]) < WALL_PHASE_INVULNERABLE
                   /\ InSeq(NewHead(Aged(i), GRID_WIDTH, GRID_HEIGHT), Aged(i).positions)) =>
                   snakes'[i].alive]_vars

\* C11: a snake with wall-phase whose head is on (x,0) with heading (0,-1)
\* advances to (x,H-1) without dying unless its invulnerability is <= 0 and
\* (x,H-1) is a cell of its body; an advance onto its own body within the 2
\* seconds after wall-phase was applied does not kill it
C11_WrapAmended ==
    [][\A i \in 1 .. Len(snakes) :
          (TickStep /\ snakes[i].alive /\ Aged(i).wall_phase) =>
             /\ (/\ Aged(i).positions[1][2] = 0 /\ Aged(i).direction = <<0, -1>>
                 /\ ~(/\ Aged(i).invulnerable_time <= 0
                      /\ InSeq(<<Aged(i).positions[1][1], GRID_HEIGHT - 1>>, Aged(i).positions))) =>
                   /\ snakes'[i].alive
                   /\ snakes'[i].positions[1] = <<Aged(i).positions[1][1], GRID_HEIGHT - 1>>
             /\ (SinceWallPhase(snakes[i]) < WALL_PHASE_INVULNERABLE
                   /\ InSeq(NewHead(Aged(i), GRID_WIDTH, GRID_HEIGHT), Aged(i).positions)) =>
                   snakes'[i].alive]_vars

\* a snake with wall-phase has wrapped from row 0 onto a cell of its own body and
\* lives
C11_Witness ==
    \E i \in 1 .. Len(snakes) :
        /\ snakes[i].alive /\ snakes[i].wall_phase
        /\ snakes[i].invulnerable_time > 0
        /\ heading_used[i] = <<0, -1>>
        /\ snakes[i].positions[1][2] = GRID_HEIGHT - 1
        /\ \E k \in 2 .. Len(snakes[i].positions) :
              snakes[i].positions[k] = snakes[i].positions[1]

\* whether snake A's head is, after this tick's movement, on a cell of snake B's
\* body other than B's head, both having advanced and neither being invulnerable
HeadOnBody(A, B) ==
    /\ A # B
    /\ snakes[A].alive /\ Advanced(A) /\ Aged(A).invulnerable_time <= 0
    /\ snakes[B].alive /\ Advanced(B) /\ Aged(B).invulnerable_time <= 0
    /\ snakes'[A].positions[1] # snakes'[B].positions[1]
    /\ \E k \in 2 .. Len(snakes'[B].positions) :
          snakes'[B].positions[k] = snakes'[A].positions[1]

C13_ShrinkHalves ==
    [][ApplyPowerUp("shrink") =>
          LET n == Len(snakes[1].positions)
          IN  IF n > 3
              THEN /\ Len(snakes'[1].positions) = n \div 2
                   /\ \A k \in 1 .. n \div 2 : snakes'[1].positions[k] = snakes[1].positions[k]
              ELSE snakes'[1].positions = snakes[1].positions]_vars

\* a body of length 10 has been cut to its first 5 cells and then left alone by a
\* further shrink of the length 2 it was cut to next
C13_Witness ==
    /\ ticks = 3
    /\ "shrink" \in DOMAIN snakes[1].power_ups
    /\ snakes[1].positions = <<<<9, 0>>, <<8, 0>>>>

\* C14: a power-up is created on a free cell: the cell PowerUpManager.update
\* puts it on holds no snake segment, not the food and no other active power-up
C14_CreatedOnFreeCell ==
    [][played' > played =>
          \A k \in 1 .. Len(active_powerups') :
              active_powerups'[k].spawn_time = 0 =>
                  LET cell == active_powerups'[k].position
                  IN  /\ cell # food
                      /\ \A i \in 1 .. Len(snakes) : ~InSeq(cell, snakes[i].positions)
                      /\ \A j \in 1 .. Len(active_powerups') :
                            j # k => active_powerups'[j].position # cell]_vars

\* seconds by which a step moves the clock: of play, or outside play while clock
\* readings are stored
ClockStep == (played' - played) + (idle' - idle)

\* PowerUpManager.update created a power-up in this step: only a creation leaves
\* the spawn timer at 0 after time has passed
Created == rounds' = rounds /\ played' > played /\ spawn_timer' = 0

\* power-up p, active before the step, is active after it
StillActive(p) ==
    \E k \in 1 .. Len(active_powerups') :
        active_powerups'[k] = [p EXCEPT !.spawn_time = @ - ClockStep]

\* p has outlived POWERUP_LIFETIME at the clock reading of an update of this step
OutlivedLifetime(p) == played' > played /\ ClockStep - p.spawn_time >= POWERUP_LIFETIME

\* a snake's head is on p's cell after a tick and the snake bears p's effect, applied
\* at this tick
PickedUp(p) ==
    /\ ticks' = ticks + 1
    /\ \E i \in 1 .. Len(snakes') :
          /\ snakes'[i].positions[1] = p.position
          /\ p.type \in DOMAIN snakes'[i].power_ups
          /\ snakes'[i].power_ups[p.type] = p.duration

\* at most MAX_ACTIVE_POWERUPS are active, and one is created only when the spawn
\* timer exceeds SPAWN_INTERVAL with fewer than MAX_ACTIVE_POWERUPS unexpired
CapAndCreation ==
    /\ Len(active_powerups') <= 3
    /\ Created =>
          /\ spawn_timer + Elapsed > 10
          /\ Cardinality({k \in 1 .. Len(active_powerups) :
                             Elapsed - active_powerups[k].spawn_time < 15}) < 3

\* C15 as stated: at most 3 power-ups are active, one is created only when the
\* spawn timer exceeds 10 seconds with fewer than 3 active, and an active power-up
\* goes away only by pickup or by age
C15_AsStated ==
    [][/\ CapAndCreation
       /\ \A k \in 1 .. Len(active_powerups) :
             LET p == active_powerups[k]
             IN  StillActive(p) \/ OutlivedLifetime(p) \/ PickedUp(p)]_vars

\* C15 amended: as stated, except that a reset of the match also discards the
\* active power-ups
C15_Amended ==
    [][/\ CapAndCreation
       /\ \A k \in 1 .. Len(active_powerups) :
             LET p == active_powerups[k]
             IN  \/ StillActive(p) \/ OutlivedLifetime(p) \/ PickedUp(p)
                 \/ /\ rounds' = rounds + 1
                    /\ active_powerups' = <<>>
                    /\ spawn_timer' = 0]_vars

\* a power-up was created and picked up in the running round: a snake bears an
\* effect and no power-up is left
C15_Witness ==
    /\ state = "playing"
    /\ active_powerups = <<>>
    /\ played >= 11
    /\ \E i \in 1 .. Len(snakes) : snakes[i].alive /\ DOMAIN snakes[i].power_ups # {}

\* C16: effects and power-ups age with the seconds of play only.  Nothing is
\* created before more than SPAWN_INTERVAL seconds of play, so while the round has
\* played less than SPAWN_INTERVAL + POWERUP_DURATION seconds every effect a snake
\* bears has seen less than its duration of play and is kept by every step of the
\* round, and every power-up has seen less than POWERUP_LIFETIME seconds of play and
\* stays unless it is picked up
C16_PauseDoesNotAge ==
    [][(rounds' = rounds /\ played' < SPAWN_INTERVAL + POWERUP_DURATION) =>
          /\ \A i \in 1 .. Len(snakes) :
                DOMAIN snakes[i].power_ups \subseteq DOMAIN snakes'[i].power_ups
          /\ \A k \in 1 .. Len(active_powerups) :
                StillActive(active_powerups[k]) \/ PickedUp(active_powerups[k])]_vars

\* C17: a step runs at most one simulation tick, and a tick runs only in PLAYING
\* with the move timer, the step's seconds included, at or above the move
\* interval 1 / (speed * greatest multiplier of a living snake), multipliers in
\* halves; after the tick the move timer is 0
C17_OneTickWhenDue ==
    [][/\ \/ ticks' = ticks
          \/ ticks' = ticks + 1
          \/ ticks' = 0 /\ rounds' = rounds + 1
       /\ ticks' = ticks + 1 =>
             /\ state = "playing"
             /\ \E i \in 1 .. Len(snakes) :
                   /\ snakes[i].alive
                   /\ (move_timer + Elapsed) * EASY.speed * Aged(i).speed_multiplier >= 2
             /\ move_timer' = 0]_vars

\* two ticks have run in two seconds of play, eight move intervals each, and the
\* move timer is 0
C17_Witness ==
    /\ state = "playing"
    /\ ticks = 2
    /\ played = 2
    /\ move_timer = 0

\* C18: Game.respawn_food always returns, so no tick is left unfinished in its
\* search for a free cell
C18_RespawnTerminates == ~hung

\* whether the rules kill s in an advance on a W x H grid: no wall-phase and the
\* new head off the grid, or no invulnerability left and the new head on a cell of
\* the body as it is, tail included
Killed(s, W, H) ==
    LET new_head == NewHead(s, W, H)
    IN  \/ /\ ~s.wall_phase
           /\ ~(new_head[1] \in 0 .. W - 1 /\ new_head[2] \in 0 .. H - 1)
        \/ /\ s.invulnerable_time <= 0
           /\ \E k \in 1 .. Len(s.positions) : s.positions[k] = new_head

\* C19: Snake.move on a living snake kills it exactly when the rules say so; a
\* killed snake keeps body, pending growth and heading; a surviving one has the new
\* head in front of its old body, without the old tail exactly when no growth was
\* pending, and one pending growth less otherwise
C19_AdvanceEffect ==
    \A i \in 1 .. Len(snakes) :
        snakes[i].alive =>
            LET s == snakes[i]
                r == move(s, GRID_WIDTH, GRID_HEIGHT).snake
                n == Len(s.positions)
            IN  /\ ~r.alive <=> Killed(s, GRID_WIDTH, GRID_HEIGHT)
                /\ ~r.alive =>
                      /\ r.positions = s.positions
                      /\ r.grow_pending = s.grow_pending
                      /\ r.direction = s.direction
                /\ r.alive =>
                      /\ r.positions[1] = NewHead(s, GRID_WIDTH, GRID_HEIGHT)
                      /\ r.direction = s.direction
                      /\ IF s.grow_pending = 0
                         THEN /\ Len(r.positions) = n
                              /\ \A k \in 1 .. n - 1 : r.positions[k + 1] = s.positions[k]
                              /\ r.grow_pending = 0
                         ELSE /\ Len(r.positions) = n + 1
                              /\ \A k \in 1 .. n : r.positions[k + 1] = s.positions[k]
                              /\ r.grow_pending = s.grow_pending - 1

\* a snake lies dead with its body intact after an advance, along the heading it
\* still has, whose new head was its own tail cell
C19_Witness ==
    \E i \in 1 .. Len(snakes) :
        LET s == snakes[i]
        IN  /\ ~s.alive
            /\ ~multiplayer
            /\ Len(s.positions) >= 2
            /\ s.direction = heading_used[i]
            /\ s.invulnerable_time <= 0
            /\ NewHead(s, GRID_WIDTH, GRID_HEIGHT) = s.positions[Len(s.positions)]

\* C20: a snake killed by the movement of a tick picks nothing up in that tick:
\* its effects, body, multiplier, wall-phase flag and invulnerability are those
\* the movement left, and a power-up on its head cell stays active
C20_DeadPickNothingUp ==
    [][\A i \in 1 .. Len(snakes) :
          LET d == move(Aged(i), GRID_WIDTH, GRID_HEIGHT).snake
          IN  (TickStep /\ snakes[i].alive /\ ~d.alive) =>
                 /\ snakes'[i].power_ups = rebase_snake(d, Elapsed).power_ups
                 /\ snakes'[i].positions = d.positions
                 /\ snakes'[i].speed_multiplier = d.speed_multiplier
                 /\ snakes'[i].wall_phase = d.wall_phase
                 /\ snakes'[i].invulnerable_time = d.invulnerable_time
                 /\ \A k \in 1 .. Len(active_powerups) :
                       LET p == active_powerups[k]
                       IN  p.position = d.positions[1] =>
                              StillActive(p) \/ OutlivedLifetime(p)]_vars

\* snake i as the movement step of this tick leaves it
Moved(i) == move(Aged(i), GRID_WIDTH, GRID_HEIGHT).snake

\* C21: the body of a snake that is dead after the movement step eliminates
\* nobody: a snake that survives the movement of a tick in which every other
\* snake is dead after the movement is alive at the end of the tick
C21_DeadBodyHarmless ==
    [][\A A \in 1 .. Len(snakes) :
          (/\ TickStep /\ multiplayer
           /\ snakes[A].alive /\ Moved(A).alive
           /\ \A B \in 1 .. Len(snakes) : B # A => ~Moved(B).alive) =>
              snakes'[A].alive]_vars

\* the points snake i gains in this step
Award(i) == snakes'[i].score - snakes[i].score

\* whether snake i, alive at the start of this tick, has its head on the food after
\* the movement step
OnFood(i) == snakes[i].alive /\ Moved(i).positions[1] = food

\* C22: within a round a score changes only by the award for the food: the snake
\* is alive, its head is on the food after the movement of a tick, it gains 10
\* points on EASY, 20 when it bears double points, its pending growth goes up by 2,
\* the food is put on a cell free of snakes and no other snake gains points; and
\* whenever a snake's head is on the food after the movement, some such snake is
\* awarded
C22_FoodAward ==
    [][rounds' = rounds =>
          /\ \A i \in 1 .. Len(snakes) :
                Award(i) # 0 =>
                   /\ ticks' = ticks + 1
                   /\ OnFood(i)
                   /\ Award(i) = IF "double_points" \in DOMAIN Aged(i).power_ups
                                 THEN 20 ELSE 10
                   /\ snakes'[i].grow_pending = Moved(i).grow_pending + 2
                   /\ \A j \in 1 .. Len(snakes) : j # i => Award(j) = 0
                   /\ ~hung' =>
                         /\ food' # food
                         /\ \A j \in 1 .. Len(snakes) : ~InSeq(food', snakes'[j].positions)
          /\ (ticks' = ticks + 1 /\ \E i \in 1 .. Len(snakes) : OnFood(i)) =>
                \E i \in 1 .. Len(snakes) : OnFood(i) /\ Award(i) # 0]_vars

\* in a two-player round a snake of one cell has eaten once, bearing double points,
\* for 20 points
C22_Witness ==
    /\ multiplayer
    /\ \E i \in 1 .. Len(snakes) :
          /\ snakes[i].score = 20
          /\ snakes[i].grow_pending = 2
          /\ Len(snakes[i].positions) = 1
          /\ "double_points" \in DOMAIN snakes[i].power_ups

\* whether snake A, alive and not invulnerable after the movement step of this
\* tick, is the snake the food loop finds on the food, with its head on a cell of
\* the body the movement left another snake of the tick
EatsInsideRival(A) ==
    /\ OnFood(A) /\ Moved(A).alive /\ Aged(A).invulnerable_time <= 0
    /\ \A j \in 1 .. A - 1 : ~OnFood(j)
    /\ \E B \in 1 .. Len(snakes) :
          /\ B # A /\ snakes[B].alive
          /\ InSeq(Moved(A).positions[1], Moved(B).positions)

MatchKept ==
    /\ food' = food /\ spawn_timer' = spawn_timer /\ move_timer' = move_timer
    /\ multiplayer' = multiplayer /\ ticks' = ticks /\ played' = played
    /\ Len(snakes') = Len(snakes)
    /\ \A i \in 1 .. Len(snakes) :
          /\ snakes'[i].positions = snakes[i].positions
          /\ snakes'[i].direction = snakes[i].direction
          /\ snakes'[i].grow_pending = snakes[i].grow_pending
          /\ snakes'[i].score = snakes[i].score
          /\ snakes'[i].alive = snakes[i].alive
          /\ snakes'[i].invulnerable_time = snakes[i].invulnerable_time
          /\ snakes'[i].speed_multiplier = snakes[i].speed_multiplier
          /\ snakes'[i].wall_phase = snakes[i].wall_phase
          /\ DOMAIN snakes'[i].power_ups = DOMAIN snakes[i].power_ups
          /\ \A t \in DOMAIN snakes[i].power_ups :
                snakes'[i].power_ups[t] + ClockStep = snakes[i].power_ups[t]
    /\ Len(active_powerups') = Len(active_powerups)
    /\ \A k \in 1 .. Len(active_powerups) :
          /\ active_powerups'[k].type = active_powerups[k].type
          /\ active_powerups'[k].position = active_powerups[k].position
          /\ active_powerups'[k].duration = active_powerups[k].duration
          /\ active_powerups'[k].spawn_time + ClockStep = active_powerups[k].spawn_time

\* C24: a step taken in PAUSED either restarts the match or keeps it as it is,
\* staying in PAUSED, resuming to PLAYING or leaving for the menu
C24_PauseKeepsMatch ==
    [][state = "paused" =>
          \/ state' = "playing" /\ rounds' = rounds + 1
          \/ state' \in {"paused", "playing", "menu"} /\ rounds' = rounds /\ MatchKept]_vars

\* a round has been resumed after 6 seconds in PAUSED with a snake bearing the
\* effect it picked up at the tick before the pause
C24_Witness ==
    /\ state = "playing" /\ idle = 6 /\ ticks >= 1
    /\ \E i \in 1 .. Len(snakes) :
          \E t \in DOMAIN snakes[i].power_ups :
              snakes[i].alive /\ snakes[i].power_ups[t] = POWERUP_DURATION - 6

\* the match after the step is a new one: one snake, or two in multiplayer, each
\* alive, of one cell, with nothing scored, pending, borne or left of
\* invulnerability, at normal speed and without wall-phase; no power-up, both
\* timers 0, the food off the snakes
FreshMatch ==
    /\ Len(snakes') = IF multiplayer' THEN 2 ELSE 1
    /\ \A i \in 1 .. Len(snakes') :
          /\ snakes'[i].alive
          /\ Len(snakes'[i].positions) = 1
          /\ snakes'[i].score = 0
          /\ snakes'[i].grow_pending = 0
          /\ DOMAIN snakes'[i].power_ups = {}
          /\ snakes'[i].speed_multiplier = 2
          /\ ~snakes'[i].wall_phase
          /\ snakes'[i].invulnerable_time = 0
          /\ snakes'[i].positions[1] # food'
    /\ active_powerups' = <<>>
    /\ spawn_timer' = 0
    /\ move_timer' = 0

\* C25: a step into PLAYING is a resume from PAUSED, which keeps the match, or
\* leaves a new match
C25_EntryResets ==
    [][(state # "playing" /\ state' = "playing") =>
          \/ state = "paused" /\ rounds' = rounds /\ MatchKept
          \/ rounds' = rounds + 1 /\ FreshMatch]_vars

\* a third round, of two snakes, has just been entered after an earlier two-player
\* round was played to its end
C25_Witness ==
    /\ state = "playing" /\ multiplayer /\ rounds = 3 /\ played = 0
    /\ Len(snakes) = 2 /\ active_powerups = <<>>
    /\ high_scores.multi # <<>>

\* C26: whenever the match is in PLAYING, or PAUSED and so about to be resumed,
\* and no tick is left unfinished, a snake of the roster is alive, so the maximum
\* of Game.update's move interval is taken over a non-empty set
C26_SomeoneAlive ==
    (state \in {"playing", "paused"} /\ ~hung) =>
        \E i \in 1 .. Len(snakes) : snakes[i].alive

\* the third round, of two snakes, goes on after a tick with one snake dead and
\* the other alive
C26_Witness ==
    /\ state = "playing" /\ multiplayer /\ rounds = 3 /\ ticks >= 1
    /\ \E i, j \in 1 .. Len(snakes) : ~snakes[i].alive /\ snakes[j].alive

\* C27: a snake's speed multiplier is normal exactly when it bears neither a speed
\* boost nor a slow-down, and its wall-phase flag is set exactly when it bears
\* wall-phase
C27_StructureMatchesEffects ==
    \A i \in 1 .. Len(snakes) :
        /\ snakes[i].speed_multiplier = SPEED_NORMAL <=>
              DOMAIN snakes[i].power_ups \cap {"speed_boost", "slow_down"} = {}
        /\ snakes[i].speed_multiplier \in {SPEED_NORMAL, SPEED_BOOSTED, SPEED_SLOWED}
        /\ snakes[i].wall_phase <=> "wall_phase" \in DOMAIN snakes[i].power_ups

\* C28: within a round the roster keeps its size, and a snake that is dead stays
\* dead where it is: no step changes its body, score or pending growth or gives
\* it an effect, so it neither moves nor eats nor picks a power-up up
C28_DeadStayOut ==
    [][rounds' = rounds =>
          /\ Len(snakes') = Len(snakes)
          /\ \A i \in 1 .. Len(snakes) :
                ~snakes[i].alive =>
                   /\ ~snakes'[i].alive
                   /\ snakes'[i].positions = snakes[i].positions
                   /\ snakes'[i].score = snakes[i].score
                   /\ snakes'[i].grow_pending = snakes[i].grow_pending
                   /\ DOMAIN snakes'[i].power_ups \subseteq DOMAIN snakes[i].power_ups
                   /\ \A t \in DOMAIN snakes'[i].power_ups :
                         snakes'[i].power_ups[t] + ClockStep = snakes[i].power_ups[t]]_vars

\* a two-player round goes on after its second tick with a power-up lying on the
\* head cell of a snake that is dead and bears no effect
C28_Witness ==
    /\ state = "playing" /\ multiplayer /\ ticks = 2
    /\ \E i \in 1 .. Len(snakes) :
          /\ ~snakes[i].alive
          /\ DOMAIN snakes[i].power_ups = {}
          /\ \E k \in 1 .. Len(active_powerups) :
                active_powerups[k].position = snakes[i].positions[1]

\* the orders in which the snakes of a list can be taken
Orders(list) ==
    {order \in [1 .. Len(list) -> {list[k] : k \in 1 .. Len(list)}] :
        \A a, b \in 1 .. Len(list) : a # b => order[a] # order[b]}

\* the snakes of a roster that are not alive
Dead(roster) == {i \in 1 .. Len(roster) : ~roster[i].alive}

\* C29: whichever order the movement loop and the snake-to-snake loops take the
\* living snakes in, a tick from the state at hand leaves the same snakes dead,
\* the ones the loops leave dead in roster order
C29_OrderIndependent ==
    state = "playing" =>
        \A moving, colliding \in Orders(alive_indices(snakes)) :
            /\ Dead(tick_in_order(snakes, active_powerups, multiplayer, moving, colliding))
                  = Dead(tick_in_order(snakes, active_powerups, multiplayer,
                                       alive_indices(snakes), alive_indices(snakes)))
            /\ Dead(tick_in_order(snakes, active_powerups, multiplayer, moving, colliding))
                  = Dead(snake_collisions(move_all(snakes, alive_indices(snakes)),
                                          alive_indices(snakes), multiplayer))

\* two living snakes, one of them grown, are about to advance onto one cell: in
\* either order the tick leaves both dead, neither by its own movement
C29_Witness ==
    /\ state = "playing" /\ multiplayer /\ ticks >= 1
    /\ snakes[1].alive /\ snakes[2].alive
    /\ Len(snakes[1].positions) + Len(snakes[2].positions) >= 3
    /\ Dead(move_all(snakes, <<1, 2>>)) = {}
    /\ move_all(snakes, <<1, 2>>)[1].positions[1] = move_all(snakes, <<1, 2>>)[2].positions[1]
    /\ Dead(tick_in_order(snakes, active_powerups, multiplayer, <<2, 1>>, <<2, 1>>)) = {1, 2}

====
